---- MODULE Spec2Model ----
(***************************************************************************)
(* ReTrade marketplace: the relational tables (products, cart, orders,     *)
(* order_items) and the server actions that read and write them.  Every    *)
(* server action is an async function; each awaited database statement is  *)
(* one atomic step, and invocations of different requests interleave       *)
(* between statements.  Prices are kept in cents (decimal(10,2) columns);  *)
(* prices typed into the product form are in half cents so that the        *)
(* rounding of the column is visible.                                      *)
(***************************************************************************)
EXTENDS Integers, FiniteSets, Sequences, TLC

\* ---------------------------------------------------------------- bounds
\* the cap on the quantity of a cart row, per specification
ShopMaxQty == 1
RaceMaxQty == 1
CartMaxQty == 2
AddMaxQty == 3
ListMaxQty == 1

\* ------------------------------------------------------- program constants
MinPrice == 1
MaxPrice == 10000000
DefaultProductsLimit == 20
DefaultRelatedLimit == 4
OrdersPageLimit == 10

\* ------------------------------------------------------------ value sets
Buyers == {"b1", "b2"}
PlaceholderSellerId == "s1"
Sellers == {PlaceholderSellerId, "s2"}
Users == Buyers \cup Sellers
UserType == [u \in Users |-> IF u \in Buyers THEN "buyer" ELSE "seller"]

\* pools of row ids (UUIDs) and the request slots
ProductIds == {"p1", "p2"}
CartIds == {"c1", "c2"}
OrderIds == {"o1", "o2"}
Reqs == {"r1", "r2"}

Anon == [isLoggedIn |-> FALSE, userId |-> "none", role |-> "none"]
SessionOf(u) == [isLoggedIn |-> TRUE, userId |-> u, role |-> UserType[u]]
Sessions == {Anon} \cup {SessionOf(u) : u \in Users}

\* product forms: price is the parsed number, in half cents (1/200)
PriceScale == 200
ProductForms ==
    { [name |-> "n1", price |-> 200],
      [name |-> "n2", price |-> 501],
      [name |-> "n1", price |-> 199],
      [name |-> "n2", price |-> 2000000001] }

\* e-mail addresses are sequences of character codes: "A", "B", "a", "b"
EmailChars == {65, 66, 97, 98}
RegisterEmails == {<<x, y>> : x \in {65, 66, 98}, y \in {65, 66, 98}}
NewUserIds == {"u1", "u2"}
\* the address every seeded user row has, by user id
SeedEmail == [u \in Users |-> IF u = "b1" THEN <<98, 98>>
                              ELSE IF u = "b2" THEN <<98, 50>>
                              ELSE IF u = "s1" THEN <<115, 49>>
                              ELSE <<115, 50>>]

FileCounts == 0 .. 4
NewFileCounts == 0 .. 1
RemovedCounts == 0 .. 1


VARIABLES products, cart, orders, orderItems, users, req, browser

vars == <<products, cart, orders, orderItems, users, req, browser>>
db == <<products, cart, orders, orderItems, users>>

\* ------------------------------------------------------------ table rows
NoProduct == [st |-> "free"]
\* created_at (DEFAULT now()) is kept as the rank of the row among the
\* product rows by creation time: timestamps are only ever compared
ProductRow(seller, name, price, images, active, createdAt) ==
    [st |-> "row", sellerId |-> seller, name |-> name, price |-> price,
     images |-> images, isActive |-> active, createdAt |-> createdAt]

IsRow(p) == products[p].st = "row"

\* a row without its rank: what stays the same when another row is deleted
Columns(row) == IF row.st = "row" THEN [row EXCEPT !.createdAt = 0] ELSE row

\* the table without the row p: the ranks of the newer rows close the gap
WithoutProduct(p) ==
    [q \in ProductIds |->
        IF q = p THEN NoProduct
        ELSE IF IsRow(q) /\ products[q].createdAt > products[p].createdAt
        THEN [products[q] EXCEPT !.createdAt = @ - 1]
        ELSE products[q]]

Idle ==
    [op |-> "none", pc |-> "idle", user |-> Anon, pid |-> "none", qty |-> 0,
     id |-> "none", items |-> {}, total |-> 0, cur |-> 0,
     form |-> [name |-> "none", price |-> 0], email |-> <<>>,
     result |-> "none"]

\* how an invocation ends: "done" is a returned success value, "failed" a
\* returned {success:false, error}, "thrown" an Error thrown to the caller
Ended(op, user, pc, msg) ==
    [Idle EXCEPT !.op = op, !.user = user, !.pc = pc, !.result = msg]
Succeed(r, op, user, msg) == req' = [req EXCEPT ![r] = Ended(op, user, "done", msg)]
Fail(r, op, user, msg) == req' = [req EXCEPT ![r] = Ended(op, user, "failed", msg)]
Throw(r, op, user, msg) == req' = [req EXCEPT ![r] = Ended(op, user, "thrown", msg)]

UserRow(id, email, userType) ==
    [id |-> id, email |-> email, userType |-> userType]

\* a browser: the page it shows, the redirect parameter of that page's URL
\* as sent (<<>> when absent), its 're-trade-session' cookie ("none" when
\* absent), and the last request it made with the cookie sent and the
\* answer.  Paths are sequences of "/" and segment tokens.
NoPage ==
    [location |-> <<"/">>, query |-> <<>>, cookie |-> "none",
     requested |-> <<>>, cookieSent |-> "none", response |-> "none"]

Init ==
    /\ products = [p \in ProductIds |-> NoProduct]
    /\ cart = {}
    /\ orders = {}
    /\ orderItems = {}
    /\ users = {UserRow(u, SeedEmail[u], UserType[u]) : u \in Users}
    /\ req = [r \in Reqs |-> Idle]
    /\ browser = NoPage

\* a request slot is freed once its caller has received the result
Finish(r) ==
    /\ req[r].pc \in {"done", "failed", "thrown"}
    /\ req' = [req EXCEPT ![r] = Idle]
    /\ UNCHANGED <<db, browser>>

\* ------------------------------------------------------------- products
ValidPrice_NoMax(price) == price >= MinPrice * PriceScale

\* productSchema.price: z.number().min(1).max(10000000), on half cents
ValidPrice(price) ==
    price >= MinPrice * PriceScale /\ price <= MaxPrice * PriceScale

\* number.toString() written to a decimal(10,2) column: rounded to cents
ToDecimal2(price) == (price + 1) \div 2

\* ids are random UUIDs: a new row gets an id that no row has and that no
\* request in flight still holds
HeldProductIds ==
    {req[r].pid : r \in Reqs} \cup
    UNION {{i.productId : i \in req[r].items} : r \in Reqs}
FreeProductIds ==
    {p \in ProductIds : products[p].st = "free" /\ p \notin HeldProductIds}
HeldIds ==
    {req[r].id : r \in Reqs} \cup
    UNION {{i.id : i \in req[r].items} : r \in Reqs}
FreeCartIds ==
    {i \in CartIds : i \notin HeldIds /\ \A c \in cart : c.id # i}
FreeOrderIds(pool) ==
    {i \in pool : i \notin HeldIds /\ \A o \in orders : o.id # i}

\* order_items.product_id references products.id without ON DELETE
ReferencedByOrderItems(p) == \E i \in orderItems : i.productId = p

\* createProduct: validation, image checks and uploads, then one insert
createProduct(r, form, files, uploaded) ==
    /\ req[r].pc = "idle"
    /\ IF ~ValidPrice(form.price)
       THEN Fail(r, "createProduct", Anon, "Validation failed") /\ UNCHANGED <<db, browser>>
       ELSE IF files = 0
       THEN Fail(r, "createProduct", Anon, "At least one image is required")
            /\ UNCHANGED <<db, browser>>
       ELSE IF files > 3
       THEN Fail(r, "createProduct", Anon, "Maximum 3 images allowed")
            /\ UNCHANGED <<db, browser>>
       ELSE IF ~uploaded
       THEN Fail(r, "createProduct", Anon, "Some images failed to upload")
            /\ UNCHANGED <<db, browser>>
       ELSE \/ /\ FreeProductIds # {}
               /\ LET p == CHOOSE q \in FreeProductIds : TRUE
                  IN products' = [products EXCEPT ![p] =
                        ProductRow(PlaceholderSellerId, form.name,
                                   ToDecimal2(form.price), files, TRUE,
                                   Cardinality({q \in ProductIds : IsRow(q)}) + 1)]
               /\ Succeed(r, "createProduct", Anon, "Product created successfully")
               /\ UNCHANGED <<cart, orders, orderItems, users, browser>>
            \/ /\ Fail(r, "createProduct", Anon, "Failed to create product")
               /\ UNCHANGED <<db, browser>>

\* updateProduct, first statement: validation, then the read of the row;
\* the image list to write is computed from the row that was read
updateProductRead(r, caller, pid, form, newFiles, uploaded, removed) ==
    /\ req[r].pc = "idle"
    /\ UNCHANGED <<db, browser>>
    /\ IF ~ValidPrice(form.price)
       THEN Fail(r, "updateProduct", caller, "Validation failed")
       ELSE IF ~IsRow(pid)
       THEN Fail(r, "updateProduct", caller, "Product not found")
       ELSE IF newFiles > 0 /\ ~uploaded
       THEN Fail(r, "updateProduct", caller, "Some new images failed to upload")
       ELSE LET final == products[pid].images + newFiles - removed
            IN /\ removed <= products[pid].images + newFiles
               /\ IF final = 0
                  THEN Fail(r, "updateProduct", caller, "At least one image is required")
                  ELSE IF final > 3
                  THEN Fail(r, "updateProduct", caller, "Maximum 3 images allowed")
                  ELSE req' = [req EXCEPT ![r] =
                          [Idle EXCEPT !.op = "updateProduct", !.pc = "update",
                                       !.user = caller, !.pid = pid,
                                       !.form = form, !.cur = final]]

\* variants of the update: one that appends the computed list to the
\* stored one, one that writes the price unchecked against the maximum
UpdatedProduct_Append(row, form, images) ==
    [row EXCEPT !.name = form.name, !.price = ToDecimal2(form.price),
                !.images = row.images + images]

\* the row updateProduct's UPDATE ... WHERE id = productId writes
UpdatedProduct(row, form, images) ==
    [row EXCEPT !.name = form.name, !.price = ToDecimal2(form.price),
                !.images = images]

updateProductWrite(r) ==
    /\ req[r].op = "updateProduct" /\ req[r].pc = "update"
    /\ products' = IF IsRow(req[r].pid)
                   THEN [products EXCEPT ![req[r].pid] =
                           UpdatedProduct(@, req[r].form, req[r].cur)]
                   ELSE products
    /\ Succeed(r, "updateProduct", req[r].user, "Product updated successfully")
    /\ UNCHANGED <<cart, orders, orderItems, users, browser>>

deleteProductRead(r, caller, pid) ==
    /\ req[r].pc = "idle"
    /\ UNCHANGED <<db, browser>>
    /\ IF ~IsRow(pid)
       THEN Fail(r, "deleteProduct", caller, "Product not found")
       ELSE req' = [req EXCEPT ![r] =
               [Idle EXCEPT !.op = "deleteProduct", !.pc = "delete",
                            !.user = caller, !.pid = pid]]

\* DELETE FROM products WHERE id: refused while an order item references the
\* row; cart rows of the product go with it (ON DELETE CASCADE)
deleteProductWrite(r) ==
    /\ req[r].op = "deleteProduct" /\ req[r].pc = "delete"
    /\ IF ReferencedByOrderItems(req[r].pid)
       THEN /\ Fail(r, "deleteProduct", req[r].user, "Failed to delete product")
            /\ UNCHANGED <<db, browser>>
       ELSE /\ products' = IF IsRow(req[r].pid)
                           THEN WithoutProduct(req[r].pid)
                           ELSE products
            /\ cart' = {c \in cart : c.productId # req[r].pid}
            /\ Succeed(r, "deleteProduct", req[r].user, "Product deleted successfully")
            /\ UNCHANGED <<orders, orderItems, users, browser>>

toggleProductStatusRead(r, caller, pid) ==
    /\ req[r].pc = "idle"
    /\ UNCHANGED <<db, browser>>
    /\ IF ~IsRow(pid)
       THEN Fail(r, "toggleProductStatus", caller, "Product not found")
       ELSE req' = [req EXCEPT ![r] =
               [Idle EXCEPT !.op = "toggleProductStatus", !.pc = "update",
                            !.user = caller, !.pid = pid,
                            !.cur = IF products[pid].isActive THEN 1 ELSE 0]]

\* newStatus = !currentStatus, of the status that was read
NewStatus(currentStatus) == currentStatus = 0

toggleProductStatusWrite(r) ==
    /\ req[r].op = "toggleProductStatus" /\ req[r].pc = "update"
    /\ products' = IF IsRow(req[r].pid)
                   THEN [products EXCEPT ![req[r].pid].isActive =
                           NewStatus(req[r].cur)]
                   ELSE products
    /\ Succeed(r, "toggleProductStatus", req[r].user,
               IF NewStatus(req[r].cur) THEN "Product activated successfully"
               ELSE "Product deactivated successfully")
    /\ UNCHANGED <<cart, orders, orderItems, users, browser>>

\* ------------------------------------------------------ the seller pages
\* what a server action receives: a FormData whose "images" entries are
\* Files or strings, or a plain object (which has no get/getAll)
FileEntry == [kind |-> "File", size |-> 1]
StringEntry == [kind |-> "string", size |-> 0]
Payload(kind, form, entries) ==
    [kind |-> kind, form |-> form, entries |-> entries]

\* the loop over formData.getAll("images"): file instanceof File && size > 0
ImageFiles(entries) ==
    SelectSeq(entries, LAMBDA e : e.kind = "File" /\ e.size > 0)

\* createProduct as called with any argument: reading a field of an
\* argument that is no FormData throws inside the try
createProductCall(r, payload, uploaded) ==
    IF payload.kind # "FormData"
    THEN /\ req[r].pc = "idle"
         /\ Fail(r, "createProduct", Anon, "Failed to create product")
         /\ UNCHANGED <<db, browser>>
    ELSE createProduct(r, payload.form, Len(ImageFiles(payload.entries)),
                       uploaded)

updateProductCall(r, caller, pid, payload, uploaded) ==
    IF payload.kind # "FormData"
    THEN /\ req[r].pc = "idle"
         /\ Fail(r, "updateProduct", caller, "Failed to update product")
         /\ UNCHANGED <<db, browser>>
    ELSE updateProductRead(r, caller, pid, payload.form,
                           Len(ImageFiles(payload.entries)), uploaded, 0)

\* ProductForm.handleFormSubmit hands {...data, images} to the page, images
\* being the data URLs (strings) the image picker produced
FormImages(n) == [i \in 1 .. n |-> StringEntry]

\* a page that turned the data URLs back into Files before appending them
AddProductPageFormData_Files(data, n) ==
    Payload("FormData", data, [i \in 1 .. n |-> FileEntry])

\* AddProductPage.handleSubmit: a FormData with one "images" entry per
\* element of data.images, appended as it is
AddProductPageFormData(data, n) == Payload("FormData", data, FormImages(n))

AddProductPageSubmit(r, data, n) ==
    createProductCall(r, AddProductPageFormData(data, n), TRUE)

\* EditProductPage.handleSubmit passes what the form handed over on to
\* updateProduct
EditProductPageSubmit(r, caller, pid, data, n) ==
    updateProductCall(r, caller, pid, Payload("object", data, FormImages(n)),
                      TRUE)

\* ----------------------------------------------------------------- cart
CartRow(id, buyer, pid, quantity) ==
    [id |-> id, buyerId |-> buyer, productId |-> pid, quantity |-> quantity]

CartOf(buyer) == {c \in cart : c.buyerId = buyer}

InFlight(r, op, pc, user) ==
    [Idle EXCEPT !.op = op, !.pc = pc, !.user = user]

\* the two session checks that open addToCart and createOrder
BuyerSessionError_NoRoleCheck(user) ==
    IF ~user.isLoggedIn THEN "login" ELSE "ok"

BuyerSessionError(user) ==
    IF ~user.isLoggedIn THEN "login"
    ELSE IF user.role # "buyer" THEN "role" ELSE "ok"

addToCartCheck_NoActiveCheck(r, user, pid, quantity) ==
    /\ req[r].pc = "idle"
    /\ UNCHANGED <<db, browser>>
    /\ IF BuyerSessionError(user) = "login"
       THEN Throw(r, "addToCart", user, "You must be logged in to add items to cart")
       ELSE IF BuyerSessionError(user) = "role"
       THEN Throw(r, "addToCart", user, "Only buyers can add items to cart")
       ELSE IF ~IsRow(pid)
       THEN Throw(r, "addToCart", user, "Product not found or unavailable")
       ELSE req' = [req EXCEPT ![r] =
               [InFlight(r, "addToCart", "read_cart", user)
                   EXCEPT !.pid = pid, !.qty = quantity]]

\* addToCart, first statement: session checks, then the product lookup
\* WHERE id = productId AND is_active
addToCartCheck(r, user, pid, quantity) ==
    /\ req[r].pc = "idle"
    /\ UNCHANGED <<db, browser>>
    /\ IF BuyerSessionError(user) = "login"
       THEN Throw(r, "addToCart", user, "You must be logged in to add items to cart")
       ELSE IF BuyerSessionError(user) = "role"
       THEN Throw(r, "addToCart", user, "Only buyers can add items to cart")
       ELSE IF ~(IsRow(pid) /\ products[pid].isActive)
       THEN Throw(r, "addToCart", user, "Product not found or unavailable")
       ELSE req' = [req EXCEPT ![r] =
               [InFlight(r, "addToCart", "read_cart", user)
                   EXCEPT !.pid = pid, !.qty = quantity]]

addToCartRead_NoExisting(r) ==
    /\ req[r].op = "addToCart" /\ req[r].pc = "read_cart"
    /\ UNCHANGED <<db, browser>>
    /\ req' = [req EXCEPT ![r].pc = "write", ![r].id = "none"]

\* second statement: the buyer's row for the product, LIMIT 1
addToCartRead(r) ==
    /\ req[r].op = "addToCart" /\ req[r].pc = "read_cart"
    /\ UNCHANGED <<db, browser>>
    /\ LET existing == {c \in CartOf(req[r].user.userId) :
                           c.productId = req[r].pid}
       IN IF existing = {}
          THEN req' = [req EXCEPT ![r].pc = "write", ![r].id = "none"]
          ELSE \E c \in existing :
                  req' = [req EXCEPT ![r].pc = "write", ![r].id = c.id,
                                     ![r].cur = c.quantity]

\* third statement: UPDATE the row that was read, or INSERT a new row
addToCartWrite(r, cap) ==
    /\ req[r].op = "addToCart" /\ req[r].pc = "write"
    /\ IF req[r].id # "none"
       THEN /\ req[r].cur + req[r].qty \in (0 - cap) .. cap
            /\ cart' = {IF c.id = req[r].id
                        THEN [c EXCEPT !.quantity = req[r].cur + req[r].qty]
                        ELSE c : c \in cart}
            /\ Succeed(r, "addToCart", req[r].user, "Item added to cart successfully")
            /\ UNCHANGED <<products, orders, orderItems, users, browser>>
       ELSE IF ~IsRow(req[r].pid)
       THEN Throw(r, "addToCart", req[r].user, "Database error") /\ UNCHANGED <<db, browser>>
       ELSE /\ FreeCartIds # {}
            /\ LET id == CHOOSE i \in FreeCartIds : TRUE
               IN cart' = cart \cup {CartRow(id, req[r].user.userId,
                                             req[r].pid, req[r].qty)}
            /\ Succeed(r, "addToCart", req[r].user, "Item added to cart successfully")
            /\ UNCHANGED <<products, orders, orderItems, users, browser>>

updateCartItemRead(r, user, cartItemId, quantity) ==
    /\ req[r].pc = "idle"
    /\ UNCHANGED <<db, browser>>
    /\ IF ~user.isLoggedIn
       THEN Throw(r, "updateCartItem", user, "You must be logged in to update cart")
       ELSE IF quantity <= 0
       THEN Throw(r, "updateCartItem", user, "Quantity must be greater than 0")
       ELSE IF ~\E c \in CartOf(user.userId) : c.id = cartItemId
       THEN Throw(r, "updateCartItem", user, "Cart item not found")
       ELSE req' = [req EXCEPT ![r] =
               [InFlight(r, "updateCartItem", "update", user)
                   EXCEPT !.id = cartItemId, !.qty = quantity]]

updateCartItemWrite(r) ==
    /\ req[r].op = "updateCartItem" /\ req[r].pc = "update"
    /\ cart' = {IF c.id = req[r].id THEN [c EXCEPT !.quantity = req[r].qty]
                ELSE c : c \in cart}
    /\ Succeed(r, "updateCartItem", req[r].user, "Cart updated successfully")
    /\ UNCHANGED <<products, orders, orderItems, users, browser>>

removeFromCartRead(r, user, cartItemId) ==
    /\ req[r].pc = "idle"
    /\ UNCHANGED <<db, browser>>
    /\ IF ~user.isLoggedIn
       THEN Throw(r, "removeFromCart", user,
                  "You must be logged in to remove items from cart")
       ELSE IF ~\E c \in CartOf(user.userId) : c.id = cartItemId
       THEN Throw(r, "removeFromCart", user, "Cart item not found")
       ELSE req' = [req EXCEPT ![r] =
               [InFlight(r, "removeFromCart", "delete", user)
                   EXCEPT !.id = cartItemId]]

removeFromCartWrite(r) ==
    /\ req[r].op = "removeFromCart" /\ req[r].pc = "delete"
    /\ cart' = {c \in cart : c.id # req[r].id}
    /\ Succeed(r, "removeFromCart", req[r].user, "Item removed from cart")
    /\ UNCHANGED <<products, orders, orderItems, users, browser>>

\* clearCart: one DELETE; its catch replaces every message
clearCart(r, user, dbOk) ==
    /\ req[r].pc = "idle"
    /\ IF ~user.isLoggedIn \/ ~dbOk
       THEN Throw(r, "clearCart", user, "Failed to clear cart") /\ UNCHANGED <<db, browser>>
       ELSE /\ cart' = cart \ CartOf(user.userId)
            /\ Succeed(r, "clearCart", user, "Cart cleared successfully")
            /\ UNCHANGED <<products, orders, orderItems, users, browser>>

\* --------------------------------------------------------------- orders
\* status and createdAt take the column defaults; the clock of created_at
\* is the number of orders inserted so far
OrderRow(id, buyer, total) ==
    [id |-> id, buyerId |-> buyer, totalAmount |-> total, status |-> "pending",
     createdAt |-> Cardinality(orders) + 1]

\* cart INNER JOIN products WHERE cart.buyer_id = userId
CartItems(buyer) ==
    { [id |-> c.id, productId |-> c.productId, quantity |-> c.quantity,
       name |-> products[c.productId].name,
       price |-> products[c.productId].price,
       isActive |-> products[c.productId].isActive] :
      c \in {x \in CartOf(buyer) : IsRow(x.productId)} }

InactiveProducts_None(cartItems) == {}

InactiveProducts(cartItems) == {i \in cartItems : ~i.isActive}

\* the reduce overwrites the sum instead of adding to it
TotalAmount_Overwrite(cartItems) ==
    IF cartItems = {} THEN 0
    ELSE LET i == CHOOSE x \in cartItems : TRUE IN i.price * i.quantity

RECURSIVE TotalAmount(_)
TotalAmount(cartItems) ==
    IF cartItems = {} THEN 0
    ELSE LET i == CHOOSE x \in cartItems : TRUE
         IN i.price * i.quantity + TotalAmount(cartItems \ {i})

OrderItemsData_FirstOnly(orderId, cartItems) ==
    IF cartItems = {} THEN {}
    ELSE LET i == CHOOSE x \in cartItems : TRUE
         IN {[orderId |-> orderId, line |-> i.id, productId |-> i.productId,
              quantity |-> i.quantity, price |-> i.price,
              productName |-> i.name]}

OrderItemsData(orderId, cartItems) ==
    { [orderId |-> orderId, line |-> i.id, productId |-> i.productId,
       quantity |-> i.quantity, price |-> i.price, productName |-> i.name] :
      i \in cartItems }

\* createOrder, first statement: session checks, the cart read, the checks
\* on what was read and the total
createOrderRead(r, user) ==
    /\ req[r].pc = "idle"
    /\ UNCHANGED <<db, browser>>
    /\ IF BuyerSessionError(user) = "login"
       THEN Throw(r, "createOrder", user, "You must be logged in to place an order")
       ELSE IF BuyerSessionError(user) = "role"
       THEN Throw(r, "createOrder", user, "Only buyers can place orders")
       ELSE LET cartItems == CartItems(user.userId)
            IN IF cartItems = {}
               THEN Throw(r, "createOrder", user, "Your cart is empty")
               ELSE IF InactiveProducts(cartItems) # {}
               THEN Throw(r, "createOrder", user,
                          "Some items in your cart are no longer available")
               ELSE req' = [req EXCEPT ![r] =
                       [InFlight(r, "createOrder", "insert_order", user)
                           EXCEPT !.items = cartItems,
                                  !.total = TotalAmount(cartItems)]]

\* a variant that repeats the active check before the insert
createOrderInsertOrder_Recheck(r, pool) ==
    /\ req[r].op = "createOrder" /\ req[r].pc = "insert_order"
    /\ FreeOrderIds(pool) # {}
    /\ IF \E i \in req[r].items :
             ~(IsRow(i.productId) /\ products[i.productId].isActive)
       THEN /\ Throw(r, "createOrder", req[r].user,
                     "Some items in your cart are no longer available")
            /\ UNCHANGED <<db, browser>>
       ELSE LET id == CHOOSE i \in FreeOrderIds(pool) : TRUE
            IN /\ orders' = orders \cup
                            {OrderRow(id, req[r].user.userId, req[r].total)}
               /\ req' = [req EXCEPT ![r].pc = "insert_items", ![r].id = id]
               /\ UNCHANGED <<products, cart, orderItems, users, browser>>

createOrderInsertOrder(r, pool) ==
    /\ req[r].op = "createOrder" /\ req[r].pc = "insert_order"
    /\ FreeOrderIds(pool) # {}
    /\ LET id == CHOOSE i \in FreeOrderIds(pool) : TRUE
       IN /\ orders' = orders \cup
                       {OrderRow(id, req[r].user.userId, req[r].total)}
          /\ req' = [req EXCEPT ![r].pc = "insert_items", ![r].id = id]
    /\ UNCHANGED <<products, cart, orderItems, users, browser>>

\* a variant that inserts only the lines that are still in the cart
createOrderInsertItems_StillInCart(r) ==
    /\ req[r].op = "createOrder" /\ req[r].pc = "insert_items"
    /\ orderItems' = orderItems \cup
          OrderItemsData(req[r].id,
                         {i \in req[r].items : \E c \in cart : c.id = i.id})
    /\ req' = [req EXCEPT ![r].pc = "delete_cart"]
    /\ UNCHANGED <<products, cart, orders, users, browser>>

\* one INSERT of all lines; refused when a product row is gone
createOrderInsertItems(r) ==
    /\ req[r].op = "createOrder" /\ req[r].pc = "insert_items"
    /\ IF \E i \in req[r].items : ~IsRow(i.productId)
       THEN Throw(r, "createOrder", req[r].user, "Database error") /\ UNCHANGED <<db, browser>>
       ELSE /\ orderItems' = orderItems \cup
                             OrderItemsData(req[r].id, req[r].items)
            /\ req' = [req EXCEPT ![r].pc = "delete_cart"]
            /\ UNCHANGED <<products, cart, orders, users, browser>>

createOrderClearCart(r) ==
    /\ req[r].op = "createOrder" /\ req[r].pc = "delete_cart"
    /\ cart' = cart \ CartOf(req[r].user.userId)
    /\ req' = [req EXCEPT ![r] =
          [Ended("createOrder", req[r].user, "done",
                 "Order placed successfully") EXCEPT !.id = req[r].id]]
    /\ UNCHANGED <<products, orders, orderItems, users, browser>>

\* a variant without the check of the status that was read
cancelOrderRead_NoStatusCheck(r, user, orderId) ==
    /\ req[r].pc = "idle"
    /\ UNCHANGED <<db, browser>>
    /\ LET order == {o \in orders : o.id = orderId /\ o.buyerId = user.userId}
       IN IF order = {}
          THEN Throw(r, "cancelOrder", user, "Order not found")
          ELSE req' = [req EXCEPT ![r] =
                  [InFlight(r, "cancelOrder", "update", user)
                      EXCEPT !.id = orderId]]

\* cancelOrder checks only that getSession returned an object, then reads
\* the order WHERE id = orderId AND buyer_id = userId
cancelOrderRead(r, user, orderId) ==
    /\ req[r].pc = "idle"
    /\ UNCHANGED <<db, browser>>
    /\ LET order == {o \in orders : o.id = orderId /\ o.buyerId = user.userId}
       IN IF order = {}
          THEN Throw(r, "cancelOrder", user, "Order not found")
          ELSE IF \E o \in order : o.status # "pending"
          THEN Throw(r, "cancelOrder", user, "Only pending orders can be cancelled")
          ELSE req' = [req EXCEPT ![r] =
                  [InFlight(r, "cancelOrder", "update", user)
                      EXCEPT !.id = orderId]]

\* variants of the update: one that also clears the total, one that sets
\* another status
CancelledOrder_ZeroTotal(o) ==
    [o EXCEPT !.status = "cancelled", !.totalAmount = 0]

CancelledOrder_Confirmed(o) == [o EXCEPT !.status = "confirmed"]

\* UPDATE orders SET status = 'cancelled' WHERE id = orderId
CancelledOrder(o) == [o EXCEPT !.status = "cancelled"]

cancelOrderWrite(r) ==
    /\ req[r].op = "cancelOrder" /\ req[r].pc = "update"
    /\ orders' = {IF o.id = req[r].id THEN CancelledOrder(o) ELSE o :
                  o \in orders}
    /\ Succeed(r, "cancelOrder", req[r].user, "Order cancelled successfully")
    /\ UNCHANGED <<products, cart, orderItems, users, browser>>

\* ---------------------------------------------------------- order reads
\* ORDER BY created_at DESC
RECURSIVE ByCreatedAtDesc(_)
ByCreatedAtDesc(rows) ==
    IF rows = {} THEN <<>>
    ELSE LET newest == CHOOSE o \in rows :
                          \A x \in rows : x.createdAt <= o.createdAt
         IN <<newest>> \o ByCreatedAtDesc(rows \ {newest})

Min(a, b) == IF a < b THEN a ELSE b

\* a variant of the order select without the buyer_id condition
GetOrderById_AnyBuyer(orderTable, itemTable, user, orderId) ==
    IF ~user.isLoggedIn THEN [error |-> "Failed to fetch order details"]
    ELSE LET orderResult == {o \in orderTable : o.id = orderId}
         IN IF orderResult = {} THEN [null |-> TRUE]
            ELSE [order |-> CHOOSE o \in orderResult : TRUE,
                  items |-> {i \in itemTable :
                                i.orderId = orderId /\ IsRow(i.productId)}]

\* getOrderById on given tables: the order WHERE id AND buyer_id, LIMIT 1,
\* then its items joined with their products
GetOrderById(orderTable, itemTable, user, orderId) ==
    IF ~user.isLoggedIn THEN [error |-> "Failed to fetch order details"]
    ELSE LET orderResult == {o \in orderTable :
                                o.id = orderId /\ o.buyerId = user.userId}
         IN IF orderResult = {} THEN [null |-> TRUE]
            ELSE [order |-> CHOOSE o \in orderResult : TRUE,
                  items |-> {i \in itemTable :
                                i.orderId = orderId /\ IsRow(i.productId)}]

\* getUserOrders on a given table: limit + 1 rows from the offset, newest
\* first, the extra row only telling hasMore; then the count
GetUserOrders(orderTable, user, page, limit) ==
    IF ~user.isLoggedIn THEN [error |-> "Failed to fetch orders"]
    ELSE LET matching == {o \in orderTable : o.buyerId = user.userId}
             sorted == ByCreatedAtDesc(matching)
             offset == (page - 1) * limit
             ordersResult == SubSeq(sorted, offset + 1,
                                    Min(offset + limit + 1, Len(sorted)))
             hasMore == Len(ordersResult) > limit
             ordersList == IF hasMore
                           THEN SubSeq(ordersResult, 1, Len(ordersResult) - 1)
                           ELSE ordersResult
         IN [orders |-> [i \in DOMAIN ordersList |->
                           [id |-> ordersList[i].id,
                            totalAmount |-> ordersList[i].totalAmount,
                            status |-> ordersList[i].status,
                            createdAt |-> ordersList[i].createdAt]],
             total |-> Cardinality(matching),
             hasMore |-> hasMore]

\* OrdersPage: loadOrders(1) replaces the list, loadMore calls
\* loadOrders(currentPage + 1) while hasMore and appends; the list after the
\* last page, from the given page on
RECURSIVE LoadOrders(_, _, _, _)
LoadOrders(orderTable, user, page, limit) ==
    LET response == GetUserOrders(orderTable, user, page, limit)
    IN IF response.hasMore
       THEN response.orders \o LoadOrders(orderTable, user, page + 1, limit)
       ELSE response.orders

\* ----------------------------------------------------------- buyer reads
\* the rows of a product table, each with its id
ProductsOf(productTable) ==
    {[id |-> p] @@ productTable[p] :
        p \in {q \in DOMAIN productTable : productTable[q].st = "row"}}

\* the text columns of a product (name, description, category, location)
\* are written together from one form and kept as one value
Category(row) == row.name
Location(row) == row.name

\* filters: search is "" when absent, priceRange.min / max are 0 when
\* absent (both are tested for truthiness); a term matches the text it equals
NoFilters == [search |-> "", min |-> 0, max |-> 0]
Matches(row, filters) ==
    /\ filters.search = "" \/ row.name = filters.search
    /\ filters.min = 0 \/ row.price >= filters.min
    /\ filters.max = 0 \/ row.price <= filters.max

\* a variant of the product select that fetches limit rows, not limit + 1
GetProducts_NoExtraRow(productTable, userTable, filters, page, limit) ==
    LET matching == {x \in ProductsOf(productTable) :
                        /\ x.isActive
                        /\ \E u \in userTable : u.id = x.sellerId
                        /\ Matches(x, filters)}
        sorted == ByCreatedAtDesc(matching)
        offset == (page - 1) * limit
        result == SubSeq(sorted, offset + 1, Min(offset + limit, Len(sorted)))
        hasMore == Len(result) > limit
        productsData == IF hasMore THEN SubSeq(result, 1, Len(result) - 1)
                        ELSE result
    IN [products |-> productsData,
        total |-> Cardinality(matching),
        hasMore |-> hasMore]

\* getProducts on given tables: the active rows that pass the filters,
\* joined with their seller, newest first, limit + 1 rows from the offset,
\* the extra row only telling hasMore; then the count
GetProducts(productTable, userTable, filters, page, limit) ==
    LET matching == {x \in ProductsOf(productTable) :
                        /\ x.isActive
                        /\ \E u \in userTable : u.id = x.sellerId
                        /\ Matches(x, filters)}
        sorted == ByCreatedAtDesc(matching)
        offset == (page - 1) * limit
        result == SubSeq(sorted, offset + 1,
                         Min(offset + limit + 1, Len(sorted)))
        hasMore == Len(result) > limit
        productsData == IF hasMore THEN SubSeq(result, 1, Len(result) - 1)
                        ELSE result
    IN [products |-> productsData,
        total |-> Cardinality(matching),
        hasMore |-> hasMore]

SearchProducts(productTable, userTable, query) ==
    GetProducts(productTable, userTable, [NoFilters EXCEPT !.search = query],
                1, DefaultProductsLimit)

\* the discovery getProductById: WHERE id AND is_active, joined with the
\* seller, LIMIT 1
GetProductById(productTable, userTable, id) ==
    LET result == {x \in ProductsOf(productTable) :
                      /\ x.id = id /\ x.isActive
                      /\ \E u \in userTable : u.id = x.sellerId}
    IN IF result = {} THEN [null |-> TRUE]
       ELSE [product |-> CHOOSE x \in result : TRUE]

GetRelatedProducts(productTable, sellerId, currentProductId, limit) ==
    LET sorted == ByCreatedAtDesc({x \in ProductsOf(productTable) :
                                      /\ x.sellerId = sellerId /\ x.isActive
                                      /\ x.id # currentProductId})
    IN SubSeq(sorted, 1, Min(limit, Len(sorted)))

\* SELECT DISTINCT category / location ... WHERE is_active
GetProductCategories(productTable) ==
    {Category(x) : x \in {y \in ProductsOf(productTable) : y.isActive}}
GetProductLocations(productTable) ==
    {Location(x) : x \in {y \in ProductsOf(productTable) : y.isActive}}

\* the two reduce() sums over the cart items
RECURSIVE CartTotalItems(_)
CartTotalItems(items) ==
    IF items = {} THEN 0
    ELSE LET i == CHOOSE x \in items : TRUE
         IN i.quantity + CartTotalItems(items \ {i})

RECURSIVE CartTotalAmount(_)
CartTotalAmount(items) ==
    IF items = {} THEN 0
    ELSE LET i == CHOOSE x \in items : TRUE
         IN i.product.price * i.quantity + CartTotalAmount(items \ {i})

\* a variant of the cart select whose join leaves out is_active
GetCartItems_AnyProduct(cartTable, productTable, userTable, user) ==
    IF ~user.isLoggedIn
    THEN [items |-> {}, totalItems |-> 0, totalAmount |-> 0]
    ELSE LET cartItems ==
                {[id |-> c.id, quantity |-> c.quantity, product |-> x] :
                    c \in {d \in cartTable : d.buyerId = user.userId},
                    x \in {y \in ProductsOf(productTable) :
                              \E u \in userTable : u.id = y.sellerId}}
             joined == {i \in cartItems :
                          \E c \in cartTable :
                             c.id = i.id /\ c.productId = i.product.id}
         IN [items |-> joined,
             totalItems |-> CartTotalItems(joined),
             totalAmount |-> CartTotalAmount(joined)]

\* getCartItems on given tables: the session buyer's cart rows joined with
\* their active products and the products' sellers, and the two sums
GetCartItems(cartTable, productTable, userTable, user) ==
    IF ~user.isLoggedIn
    THEN [items |-> {}, totalItems |-> 0, totalAmount |-> 0]
    ELSE LET cartItems ==
                {[id |-> c.id, quantity |-> c.quantity, product |-> x] :
                    c \in {d \in cartTable : d.buyerId = user.userId},
                    x \in {y \in ProductsOf(productTable) :
                              /\ y.isActive
                              /\ \E u \in userTable : u.id = y.sellerId}}
             joined == {i \in cartItems :
                          \E c \in cartTable :
                             c.id = i.id /\ c.productId = i.product.id}
         IN [items |-> joined,
             totalItems |-> CartTotalItems(joined),
             totalAmount |-> CartTotalAmount(joined)]

\* ---------------------------------------------------------------- users
\* String.prototype.toLowerCase on the character codes
ToLowerCase(s) ==
    [i \in DOMAIN s |-> IF s[i] \in 65 .. 90 THEN s[i] + 32 ELSE s[i]]

\* the address registerUser looks up and stores
StoredEmail(email) == ToLowerCase(email)

FreeUserIds ==
    {i \in NewUserIds : i \notin HeldIds /\ \A u \in users : u.id # i}

\* registerUser, first statement: validation, then the select by e-mail
registerUserRead(r, email, userType, valid) ==
    /\ req[r].pc = "idle"
    /\ UNCHANGED <<db, browser>>
    /\ IF ~valid
       THEN Fail(r, "registerUser", Anon, "Validation failed")
       ELSE IF \E u \in users : u.email = StoredEmail(email)
       THEN Fail(r, "registerUser", Anon, "User with this email already exists")
       ELSE req' = [req EXCEPT ![r] =
               [InFlight(r, "registerUser", "insert", Anon)
                   EXCEPT !.email = email, !.form.name = userType]]

\* a variant of the insert that ignores the unique constraint on email
registerUserInsert_NoUnique(r) ==
    /\ req[r].op = "registerUser" /\ req[r].pc = "insert"
    /\ FreeUserIds # {}
    /\ LET id == CHOOSE i \in FreeUserIds : TRUE
       IN users' = users \cup {UserRow(id, StoredEmail(req[r].email),
                                       req[r].form.name)}
    /\ Succeed(r, "registerUser", Anon, "User registered successfully")
    /\ UNCHANGED <<products, cart, orders, orderItems, browser>>

\* the hash, then INSERT INTO users: refused by the unique constraint on
\* email when a row with the address exists by now
registerUserInsert(r) ==
    /\ req[r].op = "registerUser" /\ req[r].pc = "insert"
    /\ IF \E u \in users : u.email = StoredEmail(req[r].email)
       THEN Fail(r, "registerUser", Anon, "Registration failed") /\ UNCHANGED <<db, browser>>
       ELSE /\ FreeUserIds # {}
            /\ LET id == CHOOSE i \in FreeUserIds : TRUE
               IN users' = users \cup {UserRow(id, StoredEmail(req[r].email),
                                               req[r].form.name)}
            /\ Succeed(r, "registerUser", Anon, "User registered successfully")
            /\ UNCHANGED <<products, cart, orders, orderItems, browser>>

\* loginUser: validation, the select by e-mail, the password comparison,
\* the session; every failure, a failing select included, is returned
loginUser(r, email, valid, passwordOk, dbOk) ==
    /\ req[r].pc = "idle"
    /\ UNCHANGED <<db, browser>>
    /\ LET found == {u \in users : u.email = ToLowerCase(email)}
       IN IF ~valid
          THEN Fail(r, "loginUser", Anon, "Validation failed")
          ELSE IF ~dbOk
          THEN Fail(r, "loginUser", Anon, "Login failed")
          ELSE IF found = {} \/ ~passwordOk
          THEN Fail(r, "loginUser", Anon, "Invalid email or password")
          ELSE \E u \in found :
                  Succeed(r, "loginUser",
                          [isLoggedIn |-> TRUE, userId |-> u.id,
                           role |-> u.userType],
                          "Login successful")

\* ------------------------------------------------- middleware and login
LoginPath == <<"/", "login">>

\* the paths a browser asks for
Paths ==
    {<<"/">>, LoginPath, <<"/", "sellers">>,
     <<"/", "seller">>, <<"/", "seller", "/">>,
     <<"/", "seller", "/", "products">>,
     <<"/", "seller", "/", "products", "/", "new">>,
     <<"/", "buyer">>, <<"/", "buyer", "/">>, <<"/", "buyer", "/", "cart">>,
     <<"/", "buyer", "/", "orders">>}

\* String.prototype.startsWith
StartsWith(s, prefix) ==
    Len(s) >= Len(prefix) /\ SubSeq(s, 1, Len(prefix)) = prefix

\* encodeURIComponent escapes "/"; searchParams.get undoes the escape
EncodeURIComponent(s) ==
    [i \in DOMAIN s |-> IF s[i] = "/" THEN "%2F" ELSE s[i]]
DecodeURIComponent(s) ==
    [i \in DOMAIN s |-> IF s[i] = "%2F" THEN "/" ELSE s[i]]

\* config.matcher: '/seller/:path*' and '/buyer/:path*', :path* standing
\* for zero or more segments
MatcherSelects(pathname) ==
    \E root \in {"seller", "buyer"} :
       /\ StartsWith(pathname, <<"/", root>>)
       /\ Len(pathname) = 2 \/ pathname[3] = "/"

\* sessionCookie?.value is truthy
HasValue(sessionCookie) == sessionCookie \notin {"none", ""}

Redirect(pathname) ==
    [kind |-> "redirect", location |-> LoginPath,
     query |-> EncodeURIComponent(pathname)]
PassThrough == [kind |-> "next"]

\* the answer of middleware(request)
middleware(pathname, sessionCookie) ==
    IF StartsWith(pathname, <<"/", "seller", "/">>) \/
       StartsWith(pathname, <<"/", "buyer", "/">>)
    THEN IF ~HasValue(sessionCookie) THEN Redirect(pathname) ELSE PassThrough
    ELSE PassThrough

\* what the browser shows after asking for a path with a cookie: the
\* middleware runs on the paths the matcher selects
Answered(b, pathname, sessionCookie) ==
    LET answer == IF MatcherSelects(pathname)
                  THEN middleware(pathname, sessionCookie)
                  ELSE PassThrough
    IN IF answer.kind = "redirect"
       THEN [b EXCEPT !.requested = pathname, !.cookieSent = sessionCookie,
                      !.response = "redirect", !.location = answer.location,
                      !.query = answer.query]
       ELSE [b EXCEPT !.requested = pathname, !.cookieSent = sessionCookie,
                      !.response = "next", !.location = pathname,
                      !.query = <<>>]

\* a request for a path, with the cookie the browser holds
Request(pathname) ==
    /\ \A r \in Reqs : req[r].pc = "idle"
    /\ browser' = Answered(browser, pathname, browser.cookie)
    /\ UNCHANGED <<db, req>>

\* the cookie is dropped or emptied outside the application
CookieValues == {"none", "", "session"}
LoseCookie(value) ==
    /\ \A r \in Reqs : req[r].pc = "idle"
    /\ HasValue(browser.cookie) /\ ~HasValue(value)
    /\ browser' = [browser EXCEPT !.cookie = value]
    /\ UNCHANGED <<db, req>>

\* loginUser's redirectPath
RedirectPath(userType) ==
    IF userType = "seller" THEN <<"/", "seller", "/">>
    ELSE <<"/", "buyer", "/">>

\* a || b on strings: the empty string is falsy
Or(a, b) == IF a # <<>> THEN a ELSE b

\* LoginForm: redirectTo = searchParams.get('redirect') || '/', and
\* finalRedirect = result.redirectPath || redirectTo
FinalRedirect(redirectPath, query) ==
    Or(redirectPath, Or(DecodeURIComponent(query), <<"/">>))

\* LoginForm.onSubmit calls loginUser from the login page
LoginFormSubmit(r, email, valid, passwordOk) ==
    /\ browser.location = LoginPath
    /\ loginUser(r, email, valid, passwordOk, TRUE)

\* LoginForm.onSubmit after loginUser has returned: on success, with the
\* session cookie of the response, router.push(finalRedirect)
LoginFormResult(r) ==
    /\ req[r].op = "loginUser" /\ req[r].pc \in {"done", "failed"}
    /\ req' = [req EXCEPT ![r] = Idle]
    /\ browser' =
          IF req[r].pc = "done"
          THEN Answered([browser EXCEPT !.cookie = "session"],
                        FinalRedirect(RedirectPath(req[r].user.role),
                                      browser.query),
                        "session")
          ELSE browser
    /\ UNCHANGED db

\* BuyerNav.handleLogout: logoutUser destroys the session, then
\* router.push(result.redirectPath || "/login")
handleLogout ==
    /\ \A r \in Reqs : req[r].pc = "idle"
    /\ HasValue(browser.cookie)
    /\ browser' = Answered([browser EXCEPT !.cookie = "none"],
                           Or(LoginPath, LoginPath), "none")
    /\ UNCHANGED <<db, req>>

\* ------------------------------------------------------ statement errors
\* product actions catch and return {success:false}; cart and order actions
\* rethrow
ProductOps == {"createProduct", "updateProduct", "deleteProduct",
               "toggleProductStatus"}
\* the actions whose catch returns {success: false, error}
ReturningOps == ProductOps \cup {"registerUser", "loginUser"}

\* a variant in which every catch rethrows
DbError_Rethrow(r) ==
    /\ req[r].pc \notin {"idle", "done", "failed", "thrown"}
    /\ Throw(r, req[r].op, req[r].user, "Database error")
    /\ UNCHANGED <<db, browser>>

\* a variant whose catch undoes the order that was inserted
DbError_Rollback(r) ==
    /\ req[r].pc \notin {"idle", "done", "failed", "thrown"}
    /\ IF req[r].op \in ReturningOps
       THEN Fail(r, req[r].op, req[r].user, "Failed")
       ELSE Throw(r, req[r].op, req[r].user, "Database error")
    /\ IF req[r].op = "createOrder"
       THEN /\ orders' = {o \in orders : o.id # req[r].id}
            /\ orderItems' = {i \in orderItems : i.orderId # req[r].id}
            /\ UNCHANGED <<products, cart, users, browser>>
       ELSE UNCHANGED <<db, browser>>

DbError(r) ==
    /\ req[r].pc \notin {"idle", "done", "failed", "thrown"}
    /\ IF req[r].op \in ReturningOps
       THEN Fail(r, req[r].op, req[r].user, "Failed")
       ELSE Throw(r, req[r].op, req[r].user, "Database error")
    /\ UNCHANGED <<db, browser>>

\* ------------------------------------------------------ specifications
ValidForms == {f \in ProductForms : ValidPrice(f.price)}
Owner == SessionOf(PlaceholderSellerId)

ProductStep(r, callers, forms, files, newFiles, removed) ==
    \/ \E f \in forms, n \in files, u \in BOOLEAN : createProduct(r, f, n, u)
    \/ \E s \in callers, p \in ProductIds, f \in forms, n \in newFiles,
          u \in BOOLEAN, k \in removed :
          updateProductRead(r, s, p, f, n, u, k)
    \/ updateProductWrite(r)
    \/ \E s \in callers, p \in ProductIds : deleteProductRead(r, s, p)
    \/ deleteProductWrite(r)
    \/ \E s \in callers, p \in ProductIds : toggleProductStatusRead(r, s, p)
    \/ toggleProductStatusWrite(r)

CartStep(r, callers, quantities, cap) ==
    \/ \E s \in callers, p \in ProductIds, q \in quantities :
          addToCartCheck(r, s, p, q)
    \/ addToCartRead(r)
    \/ addToCartWrite(r, cap)
    \/ \E s \in callers, c \in CartIds, q \in quantities :
          updateCartItemRead(r, s, c, q)
    \/ updateCartItemWrite(r)
    \/ \E s \in callers, c \in CartIds : removeFromCartRead(r, s, c)
    \/ removeFromCartWrite(r)
    \/ \E s \in callers, ok \in BOOLEAN : clearCart(r, s, ok)

OrderStep(r, callers, pool) ==
    \/ \E s \in callers : createOrderRead(r, s)
    \/ createOrderInsertOrder(r, pool)
    \/ createOrderInsertItems(r)
    \/ createOrderClearCart(r)
    \/ \E s \in callers, o \in OrderIds : cancelOrderRead(r, s, o)
    \/ cancelOrderWrite(r)

ShopSessions == {Anon, SessionOf("b1"), SessionOf("s2")}

\* the shop, one request at a time
Next ==
    \/ Finish("r1")
    \/ DbError("r1")
    \/ ProductStep("r1", {Owner}, ValidForms, {1}, {0}, {0})
    \/ CartStep("r1", ShopSessions, 1 .. ShopMaxQty, ShopMaxQty)
    \/ OrderStep("r1", ShopSessions, {"o1"})

Spec == Init /\ [][Next]_vars

\* two requests of one buyer and the seller, interleaved statement by statement
RaceForms == {f \in ValidForms : f.name = "n1"}

NextRace ==
    \/ \E r \in Reqs : Finish(r)
    \/ createProduct("r1", CHOOSE f \in RaceForms : TRUE, 1, TRUE)
    \/ \E p \in ProductIds : addToCartCheck("r1", SessionOf("b1"), p, 1)
    \/ addToCartRead("r1")
    \/ addToCartWrite("r1", RaceMaxQty)
    \/ \E r \in Reqs : createOrderRead(r, SessionOf("b1"))
    \/ \E r \in Reqs : createOrderInsertOrder(r, OrderIds)
    \/ \E r \in Reqs : createOrderInsertItems(r)
    \/ \E r \in Reqs : createOrderClearCart(r)
    \/ \E p \in ProductIds : toggleProductStatusRead("r2", Owner, p)
    \/ toggleProductStatusWrite("r2")
    \/ \E o \in OrderIds : cancelOrderRead("r2", SessionOf("b1"), o)
    \/ cancelOrderWrite("r2")

SpecRace == Init /\ [][NextRace]_vars

\* the product actions, called by anyone
NextCatalog ==
    \/ \E r \in Reqs : Finish(r)
    \/ \E f \in ValidForms : createProduct("r1", f, 1, TRUE)
    \/ \E s \in Sessions, p \in ProductIds, f \in ValidForms :
          updateProductRead("r1", s, p, f, 0, TRUE, 0)
    \/ updateProductWrite("r1")
    \/ \E r \in Reqs, s \in Sessions, p \in ProductIds :
          deleteProductRead(r, s, p)
    \/ \E r \in Reqs : deleteProductWrite(r)
    \/ \E r \in Reqs, s \in Sessions, p \in ProductIds :
          toggleProductStatusRead(r, s, p)
    \/ \E r \in Reqs : toggleProductStatusWrite(r)

SpecCatalog == Init /\ [][NextCatalog]_vars

\* the carts of two buyers, one request slot each; the first buyer's slot
\* also calls deleteProduct, which takes no session, and the second slot
\* also carries the seller's toggleProductStatus
NextCart ==
    \/ \E r \in Reqs : Finish(r)
    \/ createProduct("r1", CHOOSE f \in RaceForms : TRUE, 1, TRUE)
    \/ CartStep("r1", {SessionOf("b1")}, 1 .. CartMaxQty, CartMaxQty)
    \/ \E p \in ProductIds : addToCartCheck("r2", SessionOf("b2"), p, 1)
    \/ addToCartRead("r2")
    \/ addToCartWrite("r2", CartMaxQty)
    \/ \E p \in ProductIds : deleteProductRead("r1", SessionOf("b1"), p)
    \/ deleteProductWrite("r1")
    \/ \E p \in ProductIds : toggleProductStatusRead("r2", Owner, p)
    \/ toggleProductStatusWrite("r2")

SpecCart == Init /\ [][NextCart]_vars

\* addToCart called by two buyers, one call after the other, between the
\* seller's listings and status changes and the buyers' removals
AddQuantities == 1 .. 2

NextAdd ==
    \/ Finish("r1")
    \/ createProduct("r1", CHOOSE f \in RaceForms : TRUE, 1, TRUE)
    \/ \E b \in Buyers, p \in ProductIds, q \in AddQuantities :
          addToCartCheck("r1", SessionOf(b), p, q)
    \/ addToCartRead("r1")
    \/ addToCartWrite("r1", AddMaxQty)
    \/ \E b \in Buyers, c \in CartIds : removeFromCartRead("r1", SessionOf(b), c)
    \/ removeFromCartWrite("r1")
    \/ \E p \in ProductIds : toggleProductStatusRead("r1", Owner, p)
    \/ toggleProductStatusWrite("r1")

SpecAdd == Init /\ [][NextAdd]_vars

\* registration, two requests interleaved
NextAuth ==
    \/ \E r \in Reqs : Finish(r)
    \/ \E r \in Reqs : DbError(r)
    \/ \E r \in Reqs, e \in RegisterEmails, t \in {"buyer", "seller"},
          v \in BOOLEAN : registerUserRead(r, e, t, v)
    \/ \E r \in Reqs : registerUserInsert(r)

SpecAuth == Init /\ [][NextAuth]_vars

\* every server action with its ways to fail, one request at a time
ErrorSessions == {Anon, SessionOf("b1")}
ErrorEmails == {<<66, 98>>, <<65, 65>>}

ErrorForms == {f \in ProductForms : f.name = "n1"}

NextErrors ==
    \/ Finish("r1")
    \/ DbError("r1")
    \/ ProductStep("r1", {Owner}, ErrorForms, {0, 1}, {0}, {0})
    \/ \E s \in ErrorSessions, p \in ProductIds : addToCartCheck("r1", s, p, 1)
    \/ addToCartRead("r1")
    \/ addToCartWrite("r1", ShopMaxQty)
    \/ \E s \in ErrorSessions, c \in CartIds, q \in {0, 1} :
          updateCartItemRead("r1", s, c, q)
    \/ updateCartItemWrite("r1")
    \/ \E s \in ErrorSessions, c \in CartIds : removeFromCartRead("r1", s, c)
    \/ removeFromCartWrite("r1")
    \/ \E s \in ErrorSessions, ok \in BOOLEAN : clearCart("r1", s, ok)
    \/ OrderStep("r1", ErrorSessions, {"o1"})
    \/ \E e \in ErrorEmails, v \in BOOLEAN :
          registerUserRead("r1", e, "buyer", v)
    \/ registerUserInsert("r1")
    \/ \E e \in ErrorEmails, v \in BOOLEAN, k \in BOOLEAN, d \in BOOLEAN :
          loginUser("r1", e, v, k, d)

SpecErrors == Init /\ [][NextErrors]_vars

\* the seller's browser on the add and edit pages (slot r1), next to direct
\* calls of the product actions with files (slot r2); no upload and no
\* statement fails
NextPage ==
    \/ \E r \in Reqs : Finish(r)
    \/ \E f \in ValidForms, n \in 1 .. 3 : AddProductPageSubmit("r1", f, n)
    \/ \E p \in ProductIds, f \in ValidForms, n \in 1 .. 3 :
          EditProductPageSubmit("r1", Owner, p, f, n)
    \/ \E f \in ValidForms, n \in 1 .. 3 :
          createProductCall("r2", AddProductPageFormData_Files(f, n), TRUE)
    \/ \E p \in ProductIds, f \in ValidForms :
          updateProductCall("r2", Owner, p,
                            AddProductPageFormData_Files(f, 0), TRUE)
    \/ updateProductWrite("r2")
    \/ \E p \in ProductIds : toggleProductStatusRead("r2", Owner, p)
    \/ toggleProductStatusWrite("r2")

SpecPage == Init /\ [][NextPage]_vars

\* two buyers ordering and cancelling the one product, one request slot
\* each
NextOrders ==
    \/ \E r \in Reqs : Finish(r)
    \/ createProduct("r1", CHOOSE f \in RaceForms : TRUE, 1, TRUE)
    \/ addToCartCheck("r1", SessionOf("b1"), "p1", 1)
    \/ addToCartCheck("r2", SessionOf("b2"), "p1", 1)
    \/ \E r \in Reqs : addToCartRead(r)
    \/ \E r \in Reqs : addToCartWrite(r, RaceMaxQty)
    \/ OrderStep("r1", {SessionOf("b1")}, OrderIds)
    \/ OrderStep("r2", {SessionOf("b2")}, OrderIds)

SpecOrders == Init /\ [][NextOrders]_vars

\* the product form: every form, every number of files, uploads that fail,
\* statements that fail; updates of two requests interleave
NextForm ==
    \/ \E r \in Reqs : Finish(r)
    \/ \E r \in Reqs : DbError(r)
    \/ \E f \in ProductForms, n \in FileCounts, u \in BOOLEAN :
          createProduct("r1", f, n, u)
    \/ \E r \in Reqs, p \in ProductIds, f \in ProductForms,
          n \in NewFileCounts, u \in BOOLEAN, k \in RemovedCounts :
          updateProductRead(r, Owner, p, f, n, u, k)
    \/ \E r \in Reqs : updateProductWrite(r)

SpecForm == Init /\ [][NextForm]_vars

\* the tables the buyer-facing reads see: listings and status changes of
\* the seller and the carts of two buyers, one call after the other
NextBrowse ==
    \/ Finish("r1")
    \/ \E f \in ValidForms : createProduct("r1", f, 1, TRUE)
    \/ \E p \in ProductIds : toggleProductStatusRead("r1", Owner, p)
    \/ toggleProductStatusWrite("r1")
    \/ \E b \in Buyers, p \in ProductIds :
          addToCartCheck("r1", SessionOf(b), p, 1)
    \/ addToCartRead("r1")
    \/ addToCartWrite("r1", ListMaxQty)
    \/ \E b \in Buyers, c \in CartIds : removeFromCartRead("r1", SessionOf(b), c)
    \/ removeFromCartWrite("r1")

SpecBrowse == Init /\ [][NextBrowse]_vars

\* the filters the reads are called with: none, a search term, a lower and
\* an upper price bound (in cents)
ListFilters ==
    {NoFilters,
     [NoFilters EXCEPT !.search = "n1"],
     [NoFilters EXCEPT !.min = 101],
     [NoFilters EXCEPT !.max = 100]}

\* the tables the paged reads see: up to two listings and up to three
\* orders of two buyers, one call after the other
ListOrderIds == {"o1", "o2", "o3"}

NextList ==
    \/ Finish("r1")
    \/ \E f \in ValidForms : createProduct("r1", f, 1, TRUE)
    \/ \E p \in ProductIds : toggleProductStatusRead("r1", Owner, p)
    \/ toggleProductStatusWrite("r1")
    \/ \E b \in Buyers : addToCartCheck("r1", SessionOf(b), "p1", 1)
    \/ addToCartRead("r1")
    \/ addToCartWrite("r1", ListMaxQty)
    \/ \E b \in Buyers : createOrderRead("r1", SessionOf(b))
    \/ createOrderInsertOrder("r1", ListOrderIds)
    \/ createOrderInsertItems("r1")
    \/ createOrderClearCart("r1")

SpecList == Init /\ [][NextList]_vars

\* a browser that asks for pages, is sent to the login page, logs in and
\* out
LoginEmails == {SeedEmail["b1"], SeedEmail["b2"], SeedEmail["s1"], <<65>>}

NextBrowser ==
    \/ \E pathname \in Paths : Request(pathname)
    \/ \E value \in CookieValues : LoseCookie(value)
    \/ \E e \in LoginEmails, v \in BOOLEAN, ok \in BOOLEAN :
          LoginFormSubmit("r1", e, v, ok)
    \/ LoginFormResult("r1")
    \/ handleLogout

SpecBrowser == Init /\ [][NextBrowser]_vars

\* one buyer's cart and checkout, addToCart and updateCartItem called with
\* any integer quantity
AnyQuantities == (0 - 1) .. 1

NextQuantity ==
    \/ Finish("r1")
    \/ createProduct("r1", CHOOSE f \in RaceForms : TRUE, 1, TRUE)
    \/ CartStep("r1", {SessionOf("b1")}, AnyQuantities, CartMaxQty)
    \/ OrderStep("r1", {SessionOf("b1")}, {"o1"})

SpecQuantity == Init /\ [][NextQuantity]_vars

\* ------------------------------------------------------------ properties
ItemsOf(orderId) == {i \in orderItems : i.orderId = orderId}
IsBuyer(user) == user.isLoggedIn /\ user.role = "buyer"
Called(r, op) == req[r].pc = "idle" /\ req'[r].op = op

RECURSIVE CartValue(_)
CartValue(rows) ==
    IF rows = {} THEN 0
    ELSE LET c == CHOOSE x \in rows : TRUE
         IN products[c.productId].price * c.quantity + CartValue(rows \ {c})

\* C1: createOrder called by a logged-in buyer whose cart is empty, or holds
\* a row of an inactive product, throws the matching error and leaves the
\* orders, order items and cart as they were
C1_RejectsEmptyOrInactiveCart ==
    [][\A r \in Reqs :
         (Called(r, "createOrder") /\ IsBuyer(req'[r].user)) =>
            LET mine == CartOf(req'[r].user.userId)
            IN /\ mine = {} =>
                     /\ req'[r].pc = "thrown"
                     /\ req'[r].result = "Your cart is empty"
                     /\ UNCHANGED db
               /\ (\E c \in mine : IsRow(c.productId)
                                   /\ ~products[c.productId].isActive) =>
                     /\ req'[r].pc = "thrown"
                     /\ req'[r].result =
                           "Some items in your cart are no longer available"
                     /\ UNCHANGED db]_vars

C1_Witness ==
    \E r \in Reqs :
        /\ req[r].op = "createOrder" /\ req[r].pc = "thrown"
        /\ req[r].result = "Some items in your cart are no longer available"
        /\ IsBuyer(req[r].user)
        /\ \E c \in CartOf(req[r].user.userId) :
              IsRow(c.productId) /\ ~products[c.productId].isActive
        /\ orders = {} /\ orderItems = {}

\* C2: a createOrder that runs alone inserts exactly one order row, of the
\* buyer and pending, gives it exactly one item per cart row of the buyer
\* (same product and quantity), and leaves the buyer without cart rows
C2_OrderMirrorsCart ==
    [][\A r \in Reqs :
         (req[r].op = "createOrder" /\ req'[r] # req[r]) =>
            LET B == req[r].user.userId
            IN /\ (req[r].pc = "insert_order" /\ req'[r].pc = "insert_items") =>
                     \E o \in orders' :
                        /\ o \notin orders /\ orders' = orders \cup {o}
                        /\ o.id = req'[r].id /\ o.buyerId = B
                        /\ o.status = "pending"
               /\ req[r].pc \in {"insert_items", "delete_cart"} =>
                     orders' = orders
               /\ (req[r].pc = "delete_cart" /\ req'[r].pc = "done") =>
                     /\ \A c \in CartOf(B) :
                           Cardinality({i \in ItemsOf(req[r].id) :
                                           /\ i.line = c.id
                                           /\ i.productId = c.productId
                                           /\ i.quantity = c.quantity}) = 1
                     /\ Cardinality(ItemsOf(req[r].id)) = Cardinality(CartOf(B))
                     /\ \E o \in orders :
                           /\ o.id = req[r].id /\ o.buyerId = B
                           /\ o.status = "pending"
                     /\ {c \in cart' : c.buyerId = B} = {}]_vars

C2_Witness ==
    \E r \in Reqs :
        /\ req[r].op = "createOrder" /\ req[r].pc = "done"
        /\ Cardinality(ItemsOf(req[r].id)) = 2
        /\ CartOf(req[r].user.userId) = {}
        /\ Cardinality(orders) = 1

C5_StatusOnlyPendingToCancelled ==
    [][/\ \A n \in orders' : n.status # "confirmed"
       /\ \A o \in orders : \E n \in orders' : n.id = o.id
       /\ \A n \in orders' :
             (\A o \in orders : o.id # n.id) => n.status = "pending"
       /\ \A o \in orders :
             \A n \in orders' :
                (n.id = o.id /\ n.status # o.status) =>
                   /\ o.status = "pending" /\ n.status = "cancelled"
                   /\ \E r \in Reqs :
                         /\ req[r].op = "cancelOrder" /\ req[r].pc = "update"
                         /\ req[r].id = o.id /\ req'[r].pc = "done"]_vars

C5_Witness ==
    \E o \in orders, n \in orders :
        /\ o.status = "cancelled" /\ n.status = "pending"
        /\ \E r \in Reqs : req[r].op = "cancelOrder" /\ req[r].pc = "done"

\* C6: when a statement of createOrder fails after the order row was
\* inserted, createOrder throws and nothing is undone: the order row, the
\* items written so far and the cart rows all stay
C6_NoRollback ==
    [][\A r \in Reqs :
         (/\ req[r].op = "createOrder"
          /\ req[r].pc \in {"insert_items", "delete_cart"}
          /\ req'[r].pc = "thrown") =>
            /\ UNCHANGED db
            /\ \E o \in orders' : o.id = req[r].id
            /\ CartOf(req[r].user.userId) # {}]_vars

C6_Witness ==
    \E r \in Reqs, o \in orders :
        /\ req[r].op = "createOrder" /\ req[r].pc = "thrown"
        /\ ItemsOf(o.id) # {}
        /\ \A i \in ItemsOf(o.id) :
              \E c \in CartOf(o.buyerId) :
                 c.id = i.line /\ c.productId = i.productId

C6_WitnessNoItems ==
    \E r \in Reqs, o \in orders :
        /\ req[r].op = "createOrder" /\ req[r].pc = "thrown"
        /\ ItemsOf(o.id) = {}
        /\ CartOf(o.buyerId) # {}

\* C7: a createOrder that has inserted its items has written one item for
\* every cart line it read, whether or not that line is still in the cart:
\* two requests that read the same cart both write all of its lines
C7_ItemsFromSnapshot ==
    \A r \in Reqs :
        (req[r].op = "createOrder" /\ req[r].pc = "delete_cart") =>
            \A i \in req[r].items :
               \E it \in ItemsOf(req[r].id) :
                  /\ it.line = i.id /\ it.productId = i.productId
                  /\ it.quantity = i.quantity

C7_Witness ==
    /\ \A r \in Reqs : req[r].op = "createOrder" /\ req[r].pc = "delete_cart"
    /\ req["r1"].items = req["r2"].items
    /\ req["r1"].items # {}
    /\ req["r1"].id # req["r2"].id
    /\ \A r \in Reqs :
          /\ \E o \in orders : o.id = req[r].id /\ o.buyerId = "b1"
          /\ {i.line : i \in ItemsOf(req[r].id)} =
                {c.id : c \in CartOf("b1")}

\* C8: once createOrder has read the cart, its order insert goes through
\* whatever the products' active flags are by then
C8_NoActiveRecheckAtInsert ==
    [][\A r \in Reqs :
         (/\ req[r].op = "createOrder" /\ req[r].pc = "insert_order"
          /\ req'[r] # req[r]) =>
            /\ req'[r].pc = "insert_items"
            /\ \E o \in orders' :
                  /\ o \notin orders /\ o.id = req'[r].id
                  /\ o.status = "pending" /\ o.totalAmount = req[r].total]_vars

C8_Witness ==
    \E r \in Reqs :
        /\ req[r].op = "createOrder" /\ req[r].pc = "insert_order"
        /\ FreeOrderIds(OrderIds) # {}
        /\ \E i \in req[r].items :
              i.isActive /\ ~products[i.productId].isActive

\* C9: a product row is changed or deleted only by a request of the user
\* whose id is the row's sellerId
C9_OnlyOwnSellerChanges ==
    [][\A p \in ProductIds :
         (IsRow(p) /\ Columns(products'[p]) # Columns(products[p])) =>
            \E r \in Reqs :
               /\ req[r].pid = p /\ req'[r].pc = "done"
               /\ req[r].op \in {"updateProduct", "deleteProduct",
                                 "toggleProductStatus"}
               /\ req[r].user.userId = products[p].sellerId]_vars

\* C10: addToCart and createOrder called without a logged-in buyer session
\* throw and leave cart, orders and order items unchanged
C10_NonBuyerRejected ==
    [][\A r \in Reqs :
         (/\ req[r].pc = "idle"
          /\ req'[r].op \in {"addToCart", "createOrder"}
          /\ ~IsBuyer(req'[r].user)) =>
            /\ req'[r].pc = "thrown"
            /\ UNCHANGED <<cart, orders, orderItems>>]_vars

C10_Witness ==
    \E r \in Reqs :
        /\ req[r].op = "addToCart" /\ req[r].pc = "thrown"
        /\ req[r].user.role = "seller"
        /\ \E p \in ProductIds : IsRow(p) /\ products[p].isActive

CartOps == {"addToCart", "updateCartItem", "removeFromCart", "clearCart",
            "createOrder"}

\* C11: a cart row is created, changed or deleted only by a request that
\* runs under the session of the row's own buyer
C11_CartBuyerScoped ==
    [][\A c \in cart \cup cart' :
         (c \notin cart \/ c \notin cart') =>
            \E r \in Reqs :
               req'[r] # req[r] /\ req'[r].user.userId = c.buyerId]_vars

\* the cart actions alone: a step of a cart action touches only cart rows
\* of its session user
C11_CartActionsScoped ==
    [][\A r \in Reqs :
         (req'[r] # req[r] /\ req'[r].op \in CartOps) =>
            \A c \in cart \cup cart' :
               (c \notin cart \/ c \notin cart') =>
                  req'[r].user.userId = c.buyerId]_vars

\* C12: every product row has one to three images
C12_ImagesOneToThree ==
    \A p \in ProductIds : IsRow(p) => products[p].images \in 1 .. 3

C12_Witness ==
    \E p \in ProductIds, q \in ProductIds, r \in Reqs :
        /\ IsRow(p) /\ products[p].images = 3
        /\ IsRow(q) /\ products[q].images = 1
        /\ req[r].op = "updateProduct" /\ req[r].pc = "failed"
        /\ req[r].result = "Maximum 3 images allowed"

C14_RejectedChangesNothing ==
    [][\A r \in Reqs :
         (req[r].pc = "idle" /\ req'[r].result = "Validation failed") =>
            /\ req'[r].pc = "failed"
            /\ products' = products]_vars

C13_EmailUnique ==
    [][/\ \A u \in users' : \A v \in users' : u.email = v.email => u.id = v.id
       /\ \A u \in users' : \A i \in DOMAIN u.email : u.email[i] \notin 65 .. 90
       /\ \A r \in Reqs :
             /\ (req[r].pc = "idle" /\ req'[r].pc = "insert") =>
                   \A u \in users : u.email # ToLowerCase(req'[r].email)
             /\ (/\ req[r].op = "registerUser" /\ req[r].pc = "insert"
                 /\ req'[r] # req[r]
                 /\ \E u \in users : u.email = ToLowerCase(req[r].email)) =>
                   req'[r].pc = "failed" /\ users' = users
             /\ (/\ req'[r] # req[r] /\ req'[r].op = "registerUser"
                 /\ req'[r].pc = "failed") =>
                   users' = users]_vars

C13_Witness ==
    \E r \in Reqs, u \in users :
        /\ req[r].op = "registerUser" /\ req[r].pc = "failed"
        /\ req[r].result = "Registration failed"
        /\ u.id \in NewUserIds
        /\ u.email = <<97, 98>>

\* C15: registerUser, loginUser and the four product actions end a failure
\* by returning {success: false, error} and never throw; the cart and order
\* actions end a failure by throwing and never return {success: false}
C15_FailureShapes ==
    \A r \in Reqs :
        /\ req[r].pc = "thrown" =>
              req[r].op \in {"addToCart", "updateCartItem", "removeFromCart",
                             "clearCart", "createOrder", "cancelOrder"}
        /\ req[r].pc = "failed" =>
              req[r].op \in {"registerUser", "loginUser", "createProduct",
                             "updateProduct", "deleteProduct",
                             "toggleProductStatus"}

C15_Witness ==
    \E r \in Reqs :
        /\ req[r].op = "deleteProduct" /\ req[r].pc = "failed"
        /\ req[r].result = "Failed to delete product"
        /\ orderItems # {}
        /\ \E o \in orders : o.status = "cancelled"

\* C16: a submission of the add or edit page with valid fields and one to
\* three images, with no upload and no statement failing, does not come
\* back as a failure: the product is stored
C16_FormSubmitStores ==
    req["r1"].op \in {"createProduct", "updateProduct"} =>
        req["r1"].pc # "failed"

\* the same for the edit page alone
C16_EditSubmitStores ==
    req["r1"].op = "updateProduct" => req["r1"].pc # "failed"

\* C17: cancelOrder goes on to its update only for an order that exists,
\* belongs to the session user and is pending; the update sets that order,
\* and no other, to cancelled; a cancelOrder that fails throws one of its
\* messages and leaves the orders as they were
C17_CancelOnlyOwnPending ==
    [][\A r \in Reqs :
         (req'[r] # req[r] /\ req'[r].op = "cancelOrder") =>
            /\ req'[r].pc = "update" =>
                  /\ orders' = orders
                  /\ \E o \in orders :
                        /\ o.id = req'[r].id
                        /\ o.buyerId = req'[r].user.userId
                        /\ o.status = "pending"
            /\ req'[r].pc = "thrown" =>
                  /\ orders' = orders
                  /\ req'[r].result \in
                        {"Order not found",
                         "Only pending orders can be cancelled",
                         "Database error"}
            /\ req'[r].pc = "done" =>
                  /\ \E o \in orders :
                        /\ o.id = req[r].id /\ o.status = "pending"
                        /\ o.buyerId = req[r].user.userId
                  /\ orders' = {IF o.id = req[r].id
                                THEN [o EXCEPT !.status = "cancelled"]
                                ELSE o : o \in orders}]_vars

C17_Witness ==
    \E r \in Reqs, o \in orders :
        /\ req[r].op = "cancelOrder" /\ req[r].pc = "thrown"
        /\ req[r].result = "Only pending orders can be cancelled"
        /\ req[r].user.userId = o.buyerId
        /\ o.status = "cancelled"

\* C18: under buyer A's session getOrderById and getUserOrders return only
\* orders of A, getOrderById returns null for another buyer's order, and
\* both return what they would return if the other buyers' orders and
\* items were not in the tables
C18_OrdersIsolated ==
    \A A \in Buyers :
        LET own == {o \in orders : o.buyerId = A}
            ownItems == {i \in orderItems : \E o \in own : o.id = i.orderId}
        IN /\ \A oid \in OrderIds :
                 LET res == GetOrderById(orders, orderItems, SessionOf(A), oid)
                 IN /\ "order" \in DOMAIN res => res.order.buyerId = A
                    /\ (\E o \in orders : o.id = oid /\ o.buyerId # A) =>
                          res = [null |-> TRUE]
                    /\ res = GetOrderById(own, ownItems, SessionOf(A), oid)
           /\ \A page \in 1 .. 2 :
                 \A limit \in 1 .. 2 :
                    LET res == GetUserOrders(orders, SessionOf(A), page, limit)
                    IN /\ \A i \in DOMAIN res.orders :
                             \E o \in own : o.id = res.orders[i].id
                       /\ res = GetUserOrders(own, SessionOf(A), page, limit)

C18_Witness ==
    \E o \in orders, q \in orders :
        /\ o.buyerId = "b1" /\ q.buyerId = "b2" /\ q.status = "cancelled"
        /\ ItemsOf(o.id) # {} /\ ItemsOf(q.id) # {}
        /\ GetOrderById(orders, orderItems, SessionOf("b1"), q.id) =
              [null |-> TRUE]
        /\ GetUserOrders(orders, SessionOf("b1"), 1, 1).total = 1

\* C19: called one after the other, a successful addToCart(p, q) of buyer B
\* inserts the row (B, p, q) when B has no row for p and otherwise adds q to
\* the quantity of B's row for p without inserting a row; a buyer never has
\* two rows for one product
C19_AddToCartAccumulates ==
    [][\A r \in Reqs :
          (req[r].op = "addToCart" /\ req[r].pc = "write" /\ req'[r] # req[r]) =>
             LET B == req[r].user.userId
                 p == req[r].pid
                 q == req[r].qty
                 existing == {c \in CartOf(B) : c.productId = p}
             IN /\ req'[r].pc = "done"
                /\ IF existing = {}
                   THEN \E i \in CartIds :
                           /\ \A c \in cart : c.id # i
                           /\ cart' = cart \cup {CartRow(i, B, p, q)}
                   ELSE \E c \in existing :
                           cart' = (cart \ {c}) \cup
                                      {[c EXCEPT !.quantity = c.quantity + q]}
                /\ \A b \in Buyers, x \in ProductIds :
                      Cardinality({c \in cart' : c.buyerId = b /\
                                                 c.productId = x}) <= 1]_vars

\* a row that only repeated calls can have built: every call adds at most 2
C19_Witness ==
    /\ req["r1"].op = "addToCart" /\ req["r1"].pc = "done"
    /\ \E c \in cart, d \in cart :
          /\ c.buyerId = req["r1"].user.userId
          /\ c.quantity > 2
          /\ d.buyerId # c.buyerId

Available(p) == IsRow(p) /\ products[p].isActive

\* C20, as stated: every cart row is created while its product is active
C20_RowsCreatedWhileActive ==
    [][\A c \in cart' :
          (\A d \in cart : d.id # c.id) => Available(c.productId)]_vars

\* C20, amended: a buyer's addToCart goes on only when its lookup finds the
\* product active, and otherwise throws 'Product not found or unavailable';
\* the lookup changes no table; every cart row is inserted by an addToCart
\* that passed this lookup for the row's product, which still exists at the
\* insert but may have been deactivated since the lookup
C20_UnavailableRejected ==
    [][/\ \A r \in Reqs :
             (Called(r, "addToCart") /\ IsBuyer(req'[r].user)) =>
                /\ UNCHANGED db
                /\ \/ /\ req'[r].pc = "read_cart"
                      /\ Available(req'[r].pid)
                   \/ /\ req'[r].pc = "thrown"
                      /\ req'[r].result = "Product not found or unavailable"
                      /\ \E p \in ProductIds : ~Available(p)
       /\ \A c \in cart' :
             (\A d \in cart : d.id # c.id) =>
                /\ IsRow(c.productId)
                /\ \E r \in Reqs :
                      /\ req[r].op = "addToCart" /\ req[r].pc = "write"
                      /\ req[r].pid = c.productId
                      /\ req[r].user.userId = c.buyerId]_vars

\* one call refused for an unavailable product while another, past its
\* lookup, is about to insert a row for a product deactivated since
C20_Witness ==
    /\ req["r2"].op = "addToCart" /\ req["r2"].pc = "thrown"
    /\ req["r2"].result = "Product not found or unavailable"
    /\ req["r1"].op = "addToCart" /\ req["r1"].pc = "write"
    /\ req["r1"].id = "none"
    /\ IsRow(req["r1"].pid) /\ ~products[req["r1"].pid].isActive

\* C21: every product returned by getProducts, searchProducts, the
\* discovery getProductById and getRelatedProducts, and the product of every
\* line of getCartItems, is active in the tables the query reads, and every
\* listed category and location is that of an active product
C21_ReadsOnlyActive ==
    /\ \A f \in ListFilters, page \in 1 .. 2, limit \in 1 .. 2 :
          LET res == GetProducts(products, users, f, page, limit)
          IN \A i \in DOMAIN res.products : Available(res.products[i].id)
    /\ \A q \in {"", "n1", "n2"} :
          LET res == SearchProducts(products, users, q)
          IN \A i \in DOMAIN res.products : Available(res.products[i].id)
    /\ \A p \in ProductIds :
          LET res == GetProductById(products, users, p)
          IN IF Available(p) THEN res.product.id = p ELSE res = [null |-> TRUE]
    /\ \A u \in Sellers, p \in ProductIds :
          LET res == GetRelatedProducts(products, u, p, DefaultRelatedLimit)
          IN \A i \in DOMAIN res : Available(res[i].id) /\ res[i].id # p
    /\ \A u \in Sessions :
          \A i \in GetCartItems(cart, products, users, u).items :
             Available(i.product.id)
    /\ \A v \in GetProductCategories(products) :
          \E p \in ProductIds : Available(p) /\ Category(products[p]) = v
    /\ \A v \in GetProductLocations(products) :
          \E p \in ProductIds : Available(p) /\ Location(products[p]) = v

\* a buyer holds a cart row of an active and one of a deactivated product,
\* whose name no other active product has
C21_Witness ==
    \E c \in CartOf("b1"), d \in CartOf("b1") :
       /\ Available(c.productId)
       /\ IsRow(d.productId) /\ ~products[d.productId].isActive
       /\ products[d.productId].name # products[c.productId].name
       /\ Cardinality(GetCartItems(cart, products, users,
                                    SessionOf("b1")).items) = 1
       /\ GetProducts(products, users, NoFilters, 1, 2).total = 1

\* the place of a row among the matching rows, newest first
Rank(o, matching) ==
    Cardinality({x \in matching : x.createdAt > o.createdAt}) + 1

\* a page of rows, with its hasMore and total, is the page-th page of limit
\* rows of the matching rows, newest first
IsPage(rows, hasMore, total, matching, page, limit) ==
    /\ Len(rows) <= limit
    /\ Len(rows) = IF Cardinality(matching) >= page * limit THEN limit
                   ELSE IF Cardinality(matching) > (page - 1) * limit
                   THEN Cardinality(matching) - (page - 1) * limit
                   ELSE 0
    /\ \A i \in DOMAIN rows :
          \E o \in matching :
             /\ o.id = rows[i].id
             /\ Rank(o, matching) = (page - 1) * limit + i
    /\ hasMore <=> Cardinality(matching) > page * limit
    /\ total = Cardinality(matching)

\* C22: on the tables of any state, getProducts and getUserOrders with
\* page >= 1 and limit >= 1 return rows (page-1)*limit+1 .. page*limit of
\* the matching rows, newest first, hasMore exactly when more than
\* page*limit rows match and total the number of matching rows; the pages
\* loaded in turn until hasMore is false hold every matching row once
C22_PagesPartitionRows ==
    /\ \A f \in ListFilters, page \in 1 .. 3, limit \in 1 .. 3 :
          LET res == GetProducts(products, users, f, page, limit)
              matching == {x \in ProductsOf(products) :
                              x.isActive /\ Matches(x, f)}
          IN IsPage(res.products, res.hasMore, res.total, matching, page, limit)
    /\ \A b \in Buyers, page \in 1 .. 4, limit \in 1 .. 3 :
          LET res == GetUserOrders(orders, SessionOf(b), page, limit)
              matching == {o \in orders : o.buyerId = b}
          IN IsPage(res.orders, res.hasMore, res.total, matching, page, limit)
    /\ \A b \in Buyers, limit \in {1, 2, 3, OrdersPageLimit} :
          LET all == LoadOrders(orders, SessionOf(b), 1, limit)
              matching == {o \in orders : o.buyerId = b}
          IN /\ Len(all) = Cardinality(matching)
             /\ \A i \in DOMAIN all :
                   \E o \in matching :
                      o.id = all[i].id /\ Rank(o, matching) = i

\* a buyer with three orders, whose pages of one hold one order each, and
\* two active products, whose first page of one has more
C22_Witness ==
    /\ Cardinality({o \in orders : o.buyerId = "b1"}) = 3
    /\ GetUserOrders(orders, SessionOf("b1"), 2, 1).hasMore
    /\ ~GetUserOrders(orders, SessionOf("b1"), 3, 1).hasMore
    /\ Len(GetUserOrders(orders, SessionOf("b1"), 2, 2).orders) = 1
    /\ GetProducts(products, users, NoFilters, 1, 1).hasMore
    /\ ~GetProducts(products, users, NoFilters, 2, 1).hasMore

\* C23: a request for a path the matcher selects is answered with a
\* redirect to /login?redirect=<the path> when it carries no non-empty
\* session cookie, and passes through when it carries one
C23_MatchedPathsProtected ==
    (browser.response # "none" /\ MatcherSelects(browser.requested)) =>
       IF HasValue(browser.cookieSent)
       THEN browser.response = "next" /\ browser.location = browser.requested
       ELSE /\ browser.response = "redirect"
            /\ browser.location = LoginPath
            /\ DecodeURIComponent(browser.query) = browser.requested

\* the same for the selected paths that continue after /seller or /buyer
C23_BelowRootsProtected ==
    (browser.response # "none" /\ MatcherSelects(browser.requested)
        /\ Len(browser.requested) > 2) =>
       IF HasValue(browser.cookieSent)
       THEN browser.response = "next" /\ browser.location = browser.requested
       ELSE /\ browser.response = "redirect"
            /\ browser.location = LoginPath
            /\ DecodeURIComponent(browser.query) = browser.requested

\* C24: a successful login from a login URL that carries redirect=P sends
\* the browser to P, and to the path of the user's role only when the URL
\* carries no redirect parameter
C24_LoginReturnsToRedirect ==
    [][\A r \in Reqs :
          (req[r].op = "loginUser" /\ req[r].pc = "done" /\
           req'[r].pc = "idle") =>
             browser'.requested =
                IF browser.query # <<>>
                THEN DecodeURIComponent(browser.query)
                ELSE RedirectPath(req[r].user.role)]_vars

\* without a redirect parameter the login sends to the path of the role
C24_LoginDefaultsToRole ==
    [][\A r \in Reqs :
          (req[r].op = "loginUser" /\ req[r].pc = "done" /\
           req'[r].pc = "idle" /\ browser.query = <<>>) =>
             browser'.requested = RedirectPath(req[r].user.role)]_vars

\* C25: every cart row and every order item has a quantity of at least 1
C25_QuantitiesPositive ==
    /\ \A c \in cart : c.quantity >= 1
    /\ \A i \in orderItems : i.quantity >= 1

\* the cart rows alone, and the order items alone
C25_CartQuantitiesPositive == \A c \in cart : c.quantity >= 1
C25_OrderItemQuantitiesPositive == \A i \in orderItems : i.quantity >= 1

\* updateCartItem never writes a quantity below 1
C25_UpdateWritesPositive ==
    [][\A r \in Reqs :
          (req[r].op = "updateCartItem" /\ req[r].pc = "update") =>
             \A c \in cart' : c.id = req[r].id => c.quantity >= 1]_vars
====
